---- MODULE Spec2Model ----
(***************************************************************************)
(* Model of src/script.js: the invoice front-end (ApiService, AuthManager, *)
(* InvoiceManager) as a state machine over the browser's single event      *)
(* loop.  Every "await" of a network call is a suspension point: the       *)
(* handler up to the await is one step, the remote store answering is one  *)
(* step, and the continuation after the await is one step.                 *)
(***************************************************************************)
EXTENDS Integers, Sequences, FiniteSets, TLC

VARIABLES
    currentUser,     \* AuthManager.currentUser (script.js:126)
    storage,         \* localStorage item 'currentUser'
    view,            \* which of #authContainer / #mainApp is displayed
    invoiceManager,  \* window.invoiceManager: index into instances, 0 = null
    instances,       \* every InvoiceManager object constructed so far
    dom,             \* the document: table body, statistics cells, form, modals
    notifications,   \* notifications shown by the latest step (each removes itself after 3 s)
    tasks,           \* suspended async functions, each waiting for one response
    unhandled,       \* an exception or promise rejection escaped a handler
    server,          \* the remote store behind the HTTP API
    call,            \* ApiService.request: what the transport does for a call
    outcome          \* ApiService.request: what the call gives its caller

vars == <<currentUser, storage, view, invoiceManager, instances, dom,
          notifications, tasks, unhandled, server, call, outcome>>

(***************************************************************************)
(* Bounds of the model.                                                    *)
(***************************************************************************)
MaxTasks == 2
MaxPending == 1
MaxInvoices == 2
MaxCustomers == 2
MaxInstances == 2
MaxTotal == 1000
MaxRows == 2

(***************************************************************************)
(* JavaScript values.  An identifier keeps its type: the number 7 and the  *)
(* string '7' are different values under ===.                              *)
(***************************************************************************)
Null == [ty |-> "null", v |-> 0]
Num(n) == [ty |-> "num", v |-> n]
Str(n) == [ty |-> "str", v |-> n]

\* `${x}`: a number becomes the string of its digits, a string stays.
Interpolate(x) == IF x.ty = "null" THEN x ELSE Str(x.v)

\* if (x): null, 0 and '' are falsy; a string of digits is truthy.
Truthy(x) == x.ty = "str" \/ (x.ty = "num" /\ x.v # 0)

\* a === b
StrictEq(a, b) == a.ty = b.ty /\ a.v = b.v

(***************************************************************************)
(* Text.  A field's text is a sequence of characters; a message is a       *)
(* sequence of words.  A numeric input's text is <<>> (empty) or <<n>>.    *)
(***************************************************************************)
RECURSIVE TrimLeft(_)
TrimLeft(s) == IF s # <<>> /\ Head(s) = " " THEN TrimLeft(Tail(s)) ELSE s

RECURSIVE TrimRight(_)
TrimRight(s) ==
    IF s # <<>> /\ s[Len(s)] = " " THEN TrimRight(SubSeq(s, 1, Len(s) - 1)) ELSE s

\* String.prototype.trim
Trim(s) == TrimRight(TrimLeft(s))

\* parseFloat(text) || 0
ParseFloatOr0(s) == IF s = <<>> THEN 0 ELSE s[1]

\* String.prototype.toLowerCase, word by word
LowerWord(w) ==
    CASE w = "Failed" -> "failed"
      [] w = "Fetch" -> "fetch"
      [] w = "Request" -> "request"
      [] w = "Login" -> "login"
      [] w = "Invalid" -> "invalid"
      [] w = "Server" -> "server"
      [] w = "Could" -> "could"
      [] OTHER -> w

ToLowerCase(msg) == [i \in 1..Len(msg) |-> LowerWord(msg[i])]

\* String.prototype.includes for a needle that is one word
Includes(msg, needle) == \E i \in 1..Len(msg) : msg[i] = needle

\* a || b on message texts: the empty text is falsy
OrElse(a, b) == IF a # <<>> THEN a ELSE b

CannotConnect == <<"Cannot", "connect", "to", "server.">>
StatusWord(n) ==
    CASE n = 200 -> "200" [] n = 201 -> "201" [] n = 204 -> "204"
      [] n = 400 -> "400" [] n = 401 -> "401" [] n = 404 -> "404"
      [] n = 500 -> "500" [] OTHER -> "N"
RequestFailedWithStatus(n) == <<"Request", "failed", "with", "status", StatusWord(n)>>
HttpStatusText(n) == <<"HTTP", StatusWord(n)>>

(***************************************************************************)
(* ApiService.request (script.js:8-52).  A transport behaviour t is        *)
(*   [net |-> "down"]-like: fetch rejects with TypeError 'Failed to fetch' *)
(*   or a response: status, content type, decoded JSON body (its message   *)
(*   and error fields, <<>> when absent, and the rest as payload), or the  *)
(*   body text of a non-JSON response.                                     *)
(* The result is [ok |-> TRUE, data] or [ok |-> FALSE, message].           *)
(***************************************************************************)
NoPayload == [kind |-> "none"]

Transport(net, status, ctype, message, error, text, payload) ==
    [net |-> net, status |-> status, ctype |-> ctype, message |-> message,
     error |-> error, text |-> text, payload |-> payload]

NetworkDown == Transport("down", 0, "none", <<>>, <<>>, <<>>, NoPayload)
JsonOk(payload) == Transport("up", 200, "json", <<>>, <<>>, <<>>, payload)
JsonError(status, message) ==
    Transport("up", status, "json", message, <<>>, <<>>, NoPayload)

\* what the try block throws, if anything (script.js:22-39)
TryBlockThrows(t) ==
    CASE t.net = "down" -> [thrown |-> TRUE, name |-> "TypeError",
                            message |-> <<"Failed", "to", "fetch">>]
      [] t.net = "up" /\ t.ctype # "json" ->
            [thrown |-> TRUE, name |-> "Error",
             message |-> OrElse(t.text, HttpStatusText(t.status))]
      [] t.net = "up" /\ t.ctype = "json" /\ ~(t.status \in 200..299) ->
            [thrown |-> TRUE, name |-> "Error",
             message |-> OrElse(t.message,
                                OrElse(t.error, RequestFailedWithStatus(t.status)))]
      [] OTHER -> [thrown |-> FALSE, name |-> "", message |-> <<>>]

\* the catch block (script.js:40-51)
CatchBlock(e) ==
    LET msg == ToLowerCase(e.message) IN
    IF e.name = "TypeError" \/ Includes(msg, "fetch") \/ Includes(msg, "failed")
    THEN CannotConnect
    ELSE OrElse(e.message, <<"Network", "error", "or", "server", "unavailable">>)

request(t) ==
    LET e == TryBlockThrows(t) IN
    IF e.thrown
    THEN [ok |-> FALSE, message |-> CatchBlock(e), data |-> NoPayload]
    ELSE [ok |-> TRUE, message |-> <<>>, data |-> t.payload]

(***************************************************************************)
(* The remote store (spec section 6).  It is not part of the repository:   *)
(* the model gives it the contract the front-end assumes.  Identifiers are *)
(* numbers; the status is stored capitalized; GET /invoices joins the      *)
(* customer's name and email.                                              *)
(***************************************************************************)
Users == {1, 2}
UserRecord(u) == [id |-> u, name |-> <<"U">>, email |-> <<"u">>]
NoUser == [id |-> 0, name |-> <<>>, email |-> <<>>]

ServerDay == 1

Capitalize(status) ==
    CASE status = "paid" -> "Paid"
      [] status = "unpaid" -> "Unpaid"
      [] status = "overdue" -> "Overdue"
      [] OTHER -> status

Request(method, res, arg, body) ==
    [method |-> method, res |-> res, arg |-> arg, body |-> body]
NoBody == [kind |-> "none"]

RECURSIVE SelectSeq2(_, _)
SelectSeq2(s, keep) ==
    IF s = <<>> THEN <<>>
    ELSE IF Head(s) \in keep THEN <<Head(s)>> \o SelectSeq2(Tail(s), keep)
         ELSE SelectSeq2(Tail(s), keep)

Range(s) == {s[i] : i \in 1..Len(s)}

CustomerOf(srv, cid) ==
    IF \E c \in Range(srv.customers) : c.id = cid
    THEN CHOOSE c \in Range(srv.customers) : c.id = cid
    ELSE [id |-> cid, user_id |-> 0, name |-> <<>>, email |-> <<>>]

\* one record of GET /invoices/{userId}
InvoiceJson(srv, r) ==
    [id |-> Num(r.id), user_id |-> CustomerOf(srv, r.customer_id).user_id,
     customer_name |-> CustomerOf(srv, r.customer_id).name,
     customer_email |-> CustomerOf(srv, r.customer_id).email,
     total |-> r.total, status |-> r.status, created_at |-> r.created_at]

InvoiceList(srv, u) ==
    LET own == SelectSeq2(srv.invoices,
                   {r \in Range(srv.invoices) : CustomerOf(srv, r.customer_id).user_id = u})
    IN [i \in 1..Len(own) |-> InvoiceJson(srv, own[i])]

CustomerJson(c) == [id |-> Num(c.id), name |-> c.name, email |-> c.email]

CustomerList(srv, u) ==
    LET own == SelectSeq2(srv.customers, {c \in Range(srv.customers) : c.user_id = u})
    IN [i \in 1..Len(own) |-> CustomerJson(own[i])]

ArrayPayload(items) == [kind |-> "array", items |-> items]
ObjectPayload == [kind |-> "object", items |-> <<>>]

\* shapes of the POST /customers response (spec section 6: not guaranteed)
CreatedShapes == {"id", "customer", "data", "other"}

\* What the network and the store may do in a run: the failures the transport
\* can produce, whether GET /invoices can return a body that is no list of
\* invoice records, and the shapes POST /customers answers with.
Env(failures, broken, shapes) ==
    [failures |-> failures, broken |-> broken, shapes |-> shapes]
CreatedPayload(shape, n) == [kind |-> "created", shape |-> shape, id |-> Num(n)]

Answer(t, srv) == [transport |-> t, srv |-> srv]

ServerError == JsonError(500, <<"Database", "error">>)

\* a record of GET /invoices that cannot be remapped: it has no id
BrokenInvoiceJson ==
    [id |-> Null, user_id |-> 0, customer_name |-> <<>>, customer_email |-> <<>>,
     total |-> 0, status |-> "Unpaid", created_at |-> ServerDay]

GetInvoicesAnswers(req, srv, env) ==
    {Answer(JsonOk(ArrayPayload(InvoiceList(srv, req.arg))), srv)} \cup
    IF env.broken
    THEN {Answer(JsonOk(ObjectPayload), srv),
          Answer(JsonOk(ArrayPayload(<<BrokenInvoiceJson>>)), srv)}
    ELSE {}

GetCustomersAnswers(req, srv) ==
    {Answer(JsonOk(ArrayPayload(CustomerList(srv, req.arg))), srv)}

\* POST /customers answers in one of the shapes of the environment; with the
\* shape "unsaved" it answers without a customer and has stored none
PostCustomerAnswers(req, srv, env) ==
    IF srv.nextCustomerId > MaxCustomers THEN {}
    ELSE LET n == srv.nextCustomerId
             c == [id |-> n, user_id |-> req.body.user_id,
                   name |-> req.body.name, email |-> req.body.email]
             srv2 == [srv EXCEPT !.customers = Append(@, c), !.nextCustomerId = n + 1]
         IN {Answer(JsonOk(CreatedPayload(shape, n)),
                    IF shape = "unsaved" THEN srv ELSE srv2) : shape \in env.shapes}

PostInvoiceAnswers(req, srv) ==
    IF srv.nextInvoiceId > MaxInvoices THEN {}
    ELSE LET n == srv.nextInvoiceId
             r == [id |-> n, customer_id |-> req.body.customer_id.v,
                   total |-> req.body.total, status |-> Capitalize(req.body.status),
                   created_at |-> ServerDay]
         IN {Answer(JsonOk(ObjectPayload),
                    [srv EXCEPT !.invoices = Append(@, r), !.nextInvoiceId = n + 1])}

NotFound == JsonError(404, <<"Invoice", "not", "found">>)

PutInvoiceAnswers(req, srv) ==
    IF \E i \in 1..Len(srv.invoices) : srv.invoices[i].id = req.arg
    THEN LET i == CHOOSE i \in 1..Len(srv.invoices) : srv.invoices[i].id = req.arg
         IN {Answer(JsonOk(ObjectPayload),
                    [srv EXCEPT !.invoices[i].customer_id = req.body.customer_id.v,
                                !.invoices[i].total = req.body.total,
                                !.invoices[i].status = Capitalize(req.body.status)])}
    ELSE {Answer(NotFound, srv)}

DeleteInvoiceAnswers(req, srv) ==
    IF \E r \in Range(srv.invoices) : r.id = req.arg
    THEN {Answer(JsonOk(ObjectPayload),
                 [srv EXCEPT !.invoices =
                     SelectSeq2(@, {r \in Range(srv.invoices) : r.id # req.arg})])}
    ELSE {Answer(NotFound, srv)}

Passwords == {"secret1", "wrong"}
LoginAnswers(req, srv) ==
    IF req.body.password = "secret1"
    THEN {Answer(JsonOk([kind |-> "user", user |-> UserRecord(req.body.user)]), srv)}
    ELSE {Answer(JsonError(401, <<"Invalid", "credentials">>), srv)}

\* POST /auth/register: the account is created, or the email is taken
EmailTaken == JsonError(400, <<"Email", "already", "registered">>)
RegisterAnswers(req, srv) ==
    {Answer(JsonOk(ObjectPayload), srv), Answer(EmailTaken, srv)}

\* every way the transport and the store can answer a request
Answers(req, srv, env) ==
    {Answer(f, srv) : f \in env.failures} \cup
    CASE req.res = "invoices" /\ req.method = "GET" -> GetInvoicesAnswers(req, srv, env)
      [] req.res = "invoices" /\ req.method = "POST" -> PostInvoiceAnswers(req, srv)
      [] req.res = "invoices" /\ req.method = "PUT" -> PutInvoiceAnswers(req, srv)
      [] req.res = "invoices" /\ req.method = "DELETE" -> DeleteInvoiceAnswers(req, srv)
      [] req.res = "customers" /\ req.method = "GET" -> GetCustomersAnswers(req, srv)
      [] req.res = "customers" /\ req.method = "POST" -> PostCustomerAnswers(req, srv, env)
      [] req.res = "login" -> LoginAnswers(req, srv)
      [] req.res = "register" -> RegisterAnswers(req, srv)
      [] OTHER -> {}

(***************************************************************************)
(* The program state as one value, so that a handler is a function from    *)
(* state to state and a call is function application.  A step starts from  *)
(* World, which has no notification on display.                            *)
(***************************************************************************)
World ==
    [currentUser |-> currentUser, storage |-> storage, view |-> view,
     invoiceManager |-> invoiceManager, instances |-> instances, dom |-> dom,
     notifications |-> <<>>, tasks |-> tasks, unhandled |-> unhandled]

Becomes(w) ==
    /\ currentUser' = w.currentUser
    /\ storage' = w.storage
    /\ view' = w.view
    /\ invoiceManager' = w.invoiceManager
    /\ instances' = w.instances
    /\ dom' = w.dom
    /\ notifications' = w.notifications
    /\ tasks' = w.tasks
    /\ unhandled' = w.unhandled

\* showNotification (script.js:277-312, 1020-1055)
showNotification(w, message, type) ==
    [w EXCEPT !.notifications = Append(@, [message |-> message, type |-> type])]

(***************************************************************************)
(* Suspended async functions.  kind and pc name the await the function is  *)
(* suspended at; inst is the InvoiceManager it runs on (0: AuthManager);   *)
(* data and editId are the locals it keeps across the await (invoiceData,  *)
(* invoiceId); req is the request in flight and resp its result once the   *)
(* remote store has answered.                                              *)
(***************************************************************************)
NoResp == [ok |-> FALSE, message |-> <<>>, data |-> NoPayload]
NoData ==
    [customerName |-> <<>>, customerEmail |-> <<>>, total |-> 0, status |-> "draft"]

Task(kind, inst, pc, req, data, editId) ==
    [kind |-> kind, inst |-> inst, pc |-> pc, req |-> req, data |-> data,
     editId |-> editId, answered |-> FALSE, resp |-> NoResp]

\* await ApiService.<method>(...): the function is suspended on the request
Await(w, task) == [w EXCEPT !.tasks = Append(@, task)]

RemoveAt(s, i) == SubSeq(s, 1, i - 1) \o SubSeq(s, i + 1, Len(s))

(***************************************************************************)
(* InvoiceManager: view model and rendering.                               *)
(***************************************************************************)
\* statusMap of loadInvoices (script.js:820-824, 840)
readStatusMap(status) ==
    CASE status = "Paid" -> "paid"
      [] status = "Unpaid" -> "unpaid"
      [] status = "Overdue" -> "overdue"
      [] OTHER -> "unpaid"

\* inv.id.toString().padStart(4, '0') for an id below 10
PadStart4(id) == <<0, 0, 0, id.v>>

\* the view model of one server record (script.js:826-844)
RemapInvoice(inv) ==
    [id |-> inv.id, userId |-> inv.user_id, invoiceNumber |-> PadStart4(inv.id),
     invoiceDate |-> inv.created_at, customerName |-> inv.customer_name,
     customerEmail |-> inv.customer_email, total |-> inv.total,
     status |-> readStatusMap(inv.status)]

\* invoices.map(...) throws on a body that is no array or a record without id
Remappable(data) ==
    /\ data.kind = "array"
    /\ \A i \in 1..Len(data.items) : data.items[i].id # Null

Remap(items) == [i \in 1..Len(items) |-> RemapInvoice(items[i])]

RECURSIVE FilterSeq(_, _)
FilterSeq(s, keep) ==
    IF s = <<>> THEN <<>>
    ELSE IF Head(s) \in keep THEN <<Head(s)>> \o FilterSeq(Tail(s), keep)
         ELSE FilterSeq(Tail(s), keep)

\* this.invoices.filter(inv => inv.userId === this.userId)
UserInvoices(inst) ==
    FilterSeq(inst.invoices, {inv \in Range(inst.invoices) : inv.userId = inst.userId})

\* renderInvoices (script.js:859-899): a row carries '${invoice.id}' in its
\* Edit and Delete buttons
renderInvoices(w, m) ==
    LET own == UserInvoices(w.instances[m]) IN
    [w EXCEPT !.dom.tbody = [i \in 1..Len(own) |-> Interpolate(own[i].id)]]

\* String.prototype.toLowerCase on a text of characters
LowerChar(c) ==
    CASE c = "C" -> "c" [] c = "N" -> "n" [] c = "I" -> "i"
      [] c = "V" -> "v" [] c = "X" -> "x" [] OTHER -> c

LowerText(text) == [i \in 1..Len(text) |-> LowerChar(text[i])]

\* String.prototype.includes on texts of characters
IncludesText(text, needle) ==
    \E i \in 0..(Len(text) - Len(needle)) :
       SubSeq(text, i + 1, i + Len(needle)) = needle

DigitChar(d) ==
    CASE d = 0 -> "0" [] d = 1 -> "1" [] d = 2 -> "2" [] d = 3 -> "3" [] d = 4 -> "4"
      [] d = 5 -> "5" [] d = 6 -> "6" [] d = 7 -> "7" [] d = 8 -> "8" [] OTHER -> "9"

\* `INV-${inv.id.toString().padStart(4, '0')}` as a text (script.js:829)
InvoiceNumberText(number) ==
    <<"I", "N", "V", "-">> \o [i \in 1..Len(number) |-> DigitChar(number[i])]

\* the search stage of filterInvoices (script.js:908-914)
bySearch(invoices, searchTerm) ==
    FilterSeq(invoices,
              {inv \in Range(invoices) :
                  \/ IncludesText(LowerText(InvoiceNumberText(inv.invoiceNumber)), searchTerm)
                  \/ IncludesText(LowerText(inv.customerName), searchTerm)
                  \/ IncludesText(LowerText(inv.customerEmail), searchTerm)})

\* the status stage of filterInvoices (script.js:916-918)
byStatus(invoices, statusFilter) ==
    FilterSeq(invoices, {inv \in Range(invoices) : inv.status = statusFilter})

\* the date stage of filterInvoices (script.js:920-938); dates are day
\* numbers and now is the day new Date() gives
byDate(invoices, dateFilter, now) ==
    FilterSeq(invoices,
              {inv \in Range(invoices) :
                  CASE dateFilter = "today" -> inv.invoiceDate = now
                    [] dateFilter = "week" -> inv.invoiceDate >= now - 7
                    [] dateFilter = "month" -> inv.invoiceDate >= now - 30
                    [] OTHER -> TRUE})

\* renderFilteredInvoices (script.js:943-986)
renderFilteredInvoices(w, invoices) ==
    [w EXCEPT !.dom.tbody = [i \in 1..Len(invoices) |-> Interpolate(invoices[i].id)]]

\* a faulty variant of filterInvoices that leaves the date stage out
filterInvoicesAnyDate(w, m, now) ==
    LET searchTerm == LowerText(w.dom.searchInput)
        own == UserInvoices(w.instances[m])
        s1 == IF searchTerm # <<>> THEN bySearch(own, searchTerm) ELSE own
        s2 == IF w.dom.statusFilter # "" THEN byStatus(s1, w.dom.statusFilter) ELSE s1
    IN renderFilteredInvoices(w, s2)

\* filterInvoices (script.js:901-941)
filterInvoices(w, m, now) ==
    LET searchTerm == LowerText(w.dom.searchInput)
        own == UserInvoices(w.instances[m])
        s1 == IF searchTerm # <<>> THEN bySearch(own, searchTerm) ELSE own
        s2 == IF w.dom.statusFilter # "" THEN byStatus(s1, w.dom.statusFilter) ELSE s1
        s3 == IF w.dom.dateFilter # "" THEN byDate(s2, w.dom.dateFilter, now) ELSE s2
    IN renderFilteredInvoices(w, s3)

RECURSIVE SumTotals(_)
SumTotals(s) == IF s = <<>> THEN 0 ELSE Head(s).total + SumTotals(Tail(s))

Count(s, keep) == Cardinality({i \in 1..Len(s) : s[i] \in keep})

\* a faulty variant of updateStatistics that counts overdue invoices as pending
updateStatisticsOverduePending(w, m) ==
    LET own == UserInvoices(w.instances[m]) IN
    [w EXCEPT !.dom.totalInvoices = Len(own),
              !.dom.totalAmount = SumTotals(own),
              !.dom.pendingInvoices =
                  Count(own, {inv \in Range(own) :
                                 inv.status \in {"draft", "sent", "unpaid", "overdue"}}),
              !.dom.paidInvoices =
                  Count(own, {inv \in Range(own) : inv.status = "paid"})]

\* updateStatistics (script.js:988-1008).  #totalAmount is the element the
\* form's total is written to as well (script.js:585, 1000).
updateStatistics(w, m) ==
    LET own == UserInvoices(w.instances[m]) IN
    [w EXCEPT !.dom.totalInvoices = Len(own),
              !.dom.totalAmount = SumTotals(own),
              !.dom.pendingInvoices =
                  Count(own, {inv \in Range(own) :
                                 inv.status \in {"draft", "sent", "unpaid"}}),
              !.dom.paidInvoices =
                  Count(own, {inv \in Range(own) : inv.status = "paid"})]

\* generateInvoiceNumber (script.js:402-416)
generateInvoiceNumber(w, m) ==
    LET own == UserInvoices(w.instances[m])
        nextNumber == IF own = <<>> THEN 1 ELSE own[Len(own)].invoiceNumber[4] + 1
    IN [w EXCEPT !.dom.invoiceNumber = nextNumber]

(***************************************************************************)
(* InvoiceManager: the form.  Money is in cents; a row's inputs hold text. *)
(***************************************************************************)
\* x.toFixed(2) of the quotient a / b, in cents
RoundDiv(a, b) ==
    IF a >= 0 THEN (2 * a + b) \div (2 * b) ELSE 0 - ((2 * (0 - a) + b) \div (2 * b))

RECURSIVE SumRowTotals(_)
SumRowTotals(rows) ==
    IF rows = <<>> THEN 0 ELSE ParseFloatOr0(Head(rows).total) + SumRowTotals(Tail(rows))

\* calculateTotals (script.js:569-590)
calculateTotals(w) ==
    LET subtotal == SumRowTotals(w.dom.rows)
        taxRate == ParseFloatOr0(w.dom.taxRate)
    IN [w EXCEPT !.dom.subtotal = subtotal,
                 !.dom.taxAmount = RoundDiv(subtotal * taxRate, 100),
                 !.dom.totalAmount = RoundDiv(subtotal * 100 + subtotal * taxRate, 100)]

\* calculateItemTotal (script.js:559-567)
calculateItemTotal(w, i) ==
    LET row == w.dom.rows[i]
        total == ParseFloatOr0(row.quantity) * ParseFloatOr0(row.price)
    IN calculateTotals([w EXCEPT !.dom.rows[i].total = <<total>>])

\* addItemRow() (script.js:510-547): loadInvoices gives every invoice an empty
\* items list, so the call with an item never happens
DefaultRow == [description |-> <<>>, quantity |-> <<1>>, price |-> <<>>, total |-> <<0>>]
addItemRow(w) == [w EXCEPT !.dom.rows = Append(@, DefaultRow)]

\* clearItems (script.js:505-508)
clearItems(w) == [w EXCEPT !.dom.rows = <<>>]

\* removeItemRow (script.js:549-557)
removeItemRow(w, i) ==
    IF Len(w.dom.rows) > 1
    THEN calculateTotals([w EXCEPT !.dom.rows = RemoveAt(@, i)])
    ELSE w

\* resetForm (script.js:465-472); form.reset() empties the tax rate
resetForm(w) == calculateTotals(addItemRow(clearItems([w EXCEPT !.dom.taxRate = <<>>])))

\* populateForm (script.js:474-503)
populateForm(w, m, invoiceId) ==
    LET inst == w.instances[m]
        found == {inv \in Range(inst.invoices) :
                     StrictEq(inv.id, invoiceId) /\ inv.userId = inst.userId}
    IN IF found = {} THEN w
       ELSE calculateTotals(addItemRow(clearItems([w EXCEPT !.dom.taxRate = <<0>>])))

\* openModal (script.js:418-436)
openModal(w, m, invoiceId) ==
    LET w1 == [w EXCEPT !.instances[m].currentEditingId = invoiceId]
        w2 == IF Truthy(invoiceId) THEN populateForm(w1, m, invoiceId)
              ELSE generateInvoiceNumber(resetForm(w1), m)
    IN [w2 EXCEPT !.dom.invoiceModal = TRUE,
                  !.dom.modalTitle = IF Truthy(invoiceId) THEN "Edit Invoice"
                                     ELSE "New Invoice"]

\* closeModal (script.js:438-445)
closeModal(w, m) ==
    [w EXCEPT !.dom.invoiceModal = FALSE, !.instances[m].currentEditingId = Null]

\* openDeleteModal (script.js:447-454)
openDeleteModal(w, m, invoiceId) ==
    [w EXCEPT !.instances[m].currentEditingId = invoiceId, !.dom.deleteModal = TRUE]

\* closeDeleteModal (script.js:456-463)
closeDeleteModal(w, m) ==
    [w EXCEPT !.dom.deleteModal = FALSE, !.instances[m].currentEditingId = Null]

\* a faulty variant of WellFormed that accepts a negative price
WellFormedAnyPrice(row) ==
    /\ Trim(row.description) # <<>>
    /\ ParseFloatOr0(row.quantity) > 0

\* the validity test of getItemsFromForm (script.js:654)
WellFormed(row) ==
    /\ Trim(row.description) # <<>>
    /\ ParseFloatOr0(row.quantity) > 0
    /\ ParseFloatOr0(row.price) >= 0

\* getItemsFromForm (script.js:644-665)
getItemsFromForm(rows) ==
    FilterSeq(rows, {row \in Range(rows) : WellFormed(row)})

(***************************************************************************)
(* InvoiceManager: the asynchronous operations.  <op>(w, ...) is the part  *)
(* of the operation that runs up to its first await; <op>Resume is the     *)
(* part that runs when the awaited call has returned.                      *)
(***************************************************************************)
FailedToLoad == <<"Failed", "to", "load", "invoices">>

\* loadInvoices up to the await (script.js:815-817)
loadInvoices(w, m, kind, pc, data, editId) ==
    Await(w, Task(kind, m, pc,
                  Request("GET", "invoices", w.instances[m].userId, NoBody),
                  data, editId))

\* a faulty variant of loadInvoicesResume that empties the collection when
\* the load fails
loadInvoicesResumeClearing(w, m, resp) ==
    IF resp.ok /\ Remappable(resp.data)
    THEN renderInvoices([w EXCEPT !.instances[m].invoices = Remap(resp.data.items)], m)
    ELSE showNotification([w EXCEPT !.instances[m].invoices = <<>>],
                          FailedToLoad, "error")

\* loadInvoices after the await (script.js:819-850)
loadInvoicesResume(w, m, resp) ==
    IF resp.ok /\ Remappable(resp.data)
    THEN renderInvoices([w EXCEPT !.instances[m].invoices = Remap(resp.data.items)], m)
    ELSE showNotification(w, FailedToLoad, "error")

\* new InvoiceManager(userId) and init() up to its await (script.js:316-326)
NewInvoiceManager(w, userId) ==
    LET m == Len(w.instances) + 1
        w1 == [w EXCEPT !.instances =
                  Append(@, [userId |-> userId, invoices |-> <<>>,
                             currentEditingId |-> Null])]
    IN loadInvoices(w1, m, "init", "initLoad", NoData, Null)

\* init() after its await (script.js:327-328)
initResume(w, t) ==
    generateInvoiceNumber(updateStatistics(loadInvoicesResume(w, t.inst, t.resp), t.inst),
                          t.inst)

\* statusMap of addInvoice (script.js:680-687)
addStatusMap(status) ==
    CASE status = "paid" -> "paid"
      [] status = "unpaid" -> "unpaid"
      [] status = "overdue" -> "overdue"
      [] status = "draft" -> "unpaid"
      [] status = "sent" -> "unpaid"
      [] OTHER -> "unpaid"

\* a faulty variant of updateStatusMap that passes draft and sent through
updateStatusMapVerbatim(status) ==
    CASE status = "paid" -> "paid"
      [] status = "unpaid" -> "unpaid"
      [] status = "overdue" -> "overdue"
      [] status = "draft" -> "draft"
      [] status = "sent" -> "sent"
      [] OTHER -> "unpaid"

\* statusMap of updateInvoice (script.js:715-722)
updateStatusMap(status) ==
    CASE status = "paid" -> "paid"
      [] status = "unpaid" -> "unpaid"
      [] status = "overdue" -> "overdue"
      [] status = "draft" -> "unpaid"
      [] status = "sent" -> "unpaid"
      [] OTHER -> "unpaid"

AddItemMessage ==
    <<"Please", "add", "at", "least", "one", "item", "to", "the", "invoice.">>
CustomerRequired == <<"Customer", "name", "and", "email", "are", "required.">>
FailedToSave == <<"Failed", "to", "save", "invoice.">>
NotRetrieved ==
    <<"Customer", "was", "created", "but", "could", "not", "be", "retrieved">>
CustomerError(message) == <<"Customer", "error:">> \o message

\* getOrCreateCustomer up to its first await (script.js:753-760)
getOrCreateCustomer(w, m, data, editId) ==
    Await(w, Task("submit", m, "getCustomers",
                  Request("GET", "customers", w.instances[m].userId, NoBody),
                  data, editId))

\* handleFormSubmit up to its first await (script.js:592-632, 667-674, 704-710);
\* name, email and status are what the user has typed into the form
handleFormSubmit(w, m, name, email, status) ==
    LET items == getItemsFromForm(w.dom.rows)
        customerName == Trim(name)
        customerEmail == Trim(email)
        invoiceData == [customerName |-> customerName, customerEmail |-> customerEmail,
                        total |-> w.dom.totalAmount, status |-> status]
    IN IF Len(items) = 0 THEN showNotification(w, AddItemMessage, "error")
       ELSE IF customerName = <<>> \/ customerEmail = <<>>
       THEN showNotification(w, CustomerRequired, "error")
       ELSE getOrCreateCustomer(w, m, invoiceData, w.instances[m].currentEditingId)

\* the catch of handleFormSubmit (script.js:637-641)
submitCatch(w, message) == showNotification(w, OrElse(message, FailedToSave), "error")

\* customers.find(c => c.email === email)
FindCustomer(payload, email) ==
    IF payload.kind = "array"
    THEN {payload.items[i] : i \in {j \in 1..Len(payload.items) :
              payload.items[j].email = email /\
              \A k \in 1..(j - 1) : payload.items[k].email # email}}
    ELSE {}

\* addInvoice / updateInvoice from the customer id to the write's await
\* (script.js:675-695, 711-730)
writeInvoice(w, t, customerId) ==
    IF Truthy(t.editId)
    THEN Await(w, Task("submit", t.inst, "writeInvoice",
                       Request("PUT", "invoices", Interpolate(t.editId).v,
                               [customer_id |-> customerId, total |-> t.data.total,
                                status |-> updateStatusMap(t.data.status)]),
                       t.data, t.editId))
    ELSE Await(w, Task("submit", t.inst, "writeInvoice",
                       Request("POST", "invoices", 0,
                               [customer_id |-> customerId, total |-> t.data.total,
                                status |-> addStatusMap(t.data.status)]),
                       t.data, t.editId))

\* getOrCreateCustomer after GET /customers (script.js:761-774, 808)
getCustomersResume(w, t) ==
    LET found == FindCustomer(t.resp.data, t.data.customerEmail) IN
    IF ~t.resp.ok THEN submitCatch(w, CustomerError(t.resp.message))
    ELSE IF found # {} THEN writeInvoice(w, t, (CHOOSE c \in found : TRUE).id)
    ELSE Await(w, Task("submit", t.inst, "postCustomer",
                       Request("POST", "customers", 0,
                               [user_id |-> w.instances[t.inst].userId,
                                name |-> t.data.customerName,
                                email |-> t.data.customerEmail]),
                       t.data, t.editId))

\* a faulty variant of the continuation after POST /customers that reads
\* the id of the response only at its top level
postCustomerResumeTopLevelId(w, t) ==
    IF ~t.resp.ok THEN submitCatch(w, CustomerError(t.resp.message))
    ELSE IF t.resp.data.kind = "created" /\ t.resp.data.shape \in {"id"}
    THEN writeInvoice(w, t, t.resp.data.id)
    ELSE Await(w, Task("submit", t.inst, "refetchCustomers",
                       Request("GET", "customers", w.instances[t.inst].userId, NoBody),
                       t.data, t.editId))

\* getOrCreateCustomer after POST /customers (script.js:776-796)
postCustomerResume(w, t) ==
    IF ~t.resp.ok THEN submitCatch(w, CustomerError(t.resp.message))
    ELSE IF t.resp.data.kind = "created" /\ t.resp.data.shape \in {"id", "customer", "data"}
    THEN writeInvoice(w, t, t.resp.data.id)
    ELSE Await(w, Task("submit", t.inst, "refetchCustomers",
                       Request("GET", "customers", w.instances[t.inst].userId, NoBody),
                       t.data, t.editId))

\* getOrCreateCustomer after the second GET /customers (script.js:797-808)
refetchCustomersResume(w, t) ==
    LET found == FindCustomer(t.resp.data, t.data.customerEmail) IN
    IF ~t.resp.ok THEN submitCatch(w, CustomerError(t.resp.message))
    ELSE IF found # {} THEN writeInvoice(w, t, (CHOOSE c \in found : TRUE).id)
    ELSE submitCatch(w, CustomerError(NotRetrieved))

\* addInvoice / updateInvoice after the write (script.js:695-697, 730-732)
writeInvoiceResume(w, t) ==
    IF ~t.resp.ok THEN submitCatch(w, t.resp.message)
    ELSE loadInvoices(
             showNotification(w, IF t.req.method = "PUT"
                                 THEN <<"Invoice", "updated", "successfully!">>
                                 ELSE <<"Invoice", "created", "successfully!">>,
                              "success"),
             t.inst, "submit", "innerLoad", t.data, t.editId)

\* the load of addInvoice / updateInvoice returns, then handleFormSubmit
\* closes the form and loads again (script.js:634-635)
innerLoadResume(w, t) ==
    loadInvoices(closeModal(loadInvoicesResume(w, t.inst, t.resp), t.inst),
                 t.inst, "submit", "outerLoad", t.data, t.editId)

\* handleFormSubmit after its own load (script.js:636)
outerLoadResume(w, t) == updateStatistics(loadInvoicesResume(w, t.inst, t.resp), t.inst)

\* deleteInvoice up to its await (script.js:739-741)
deleteInvoice(w, m, invoiceId) ==
    Await(w, Task("delete", m, "delete",
                  Request("DELETE", "invoices", Interpolate(invoiceId).v, NoBody),
                  NoData, invoiceId))

\* confirmDelete (script.js:853-857)
confirmDelete(w, m) ==
    IF Truthy(w.instances[m].currentEditingId)
    THEN deleteInvoice(w, m, w.instances[m].currentEditingId)
    ELSE w

\* this.invoices.filter(inv => inv.id !== invoiceId) (script.js:742)
WithoutInvoice(invoices, invoiceId) ==
    FilterSeq(invoices, {inv \in Range(invoices) : ~StrictEq(inv.id, invoiceId)})

\* deleteInvoice after its await (script.js:742-750); confirmDelete neither
\* awaits nor catches the promise, so the rethrown error is unhandled
deleteResume(w, t) ==
    IF ~t.resp.ok THEN [w EXCEPT !.unhandled = TRUE]
    ELSE LET m == t.inst
             w1 == [w EXCEPT !.instances[m].invoices = WithoutInvoice(@, t.editId)]
         IN showNotification(
                closeDeleteModal(updateStatistics(renderInvoices(w1, m), m), m),
                <<"Invoice", "deleted", "successfully!">>, "success")

(***************************************************************************)
(* AuthManager.                                                            *)
(***************************************************************************)
\* localStorage holds strings: JSON.stringify on write, JSON.parse on read
NoItem == [present |-> FALSE, json |-> NoUser]
Stringify(user) == [present |-> TRUE, json |-> user]
Parse(item) == item.json

\* showAuthForm (script.js:177-182)
showAuthForm(w) == [w EXCEPT !.view = "auth"]

\* showMainApp (script.js:184-202)
showMainApp(w) ==
    LET w1 == [w EXCEPT !.view = "main"] IN
    IF w1.invoiceManager = 0
    THEN [NewInvoiceManager(w1, w1.currentUser.id)
             EXCEPT !.invoiceManager = Len(w1.instances) + 1]
    ELSE w1

\* checkAuthStatus (script.js:167-175)
checkAuthStatus(w) ==
    IF w.storage.present
    THEN showMainApp([w EXCEPT !.currentUser = Parse(w.storage)])
    ELSE showAuthForm(w)

\* handleLogin up to its await (script.js:218-224)
handleLogin(w, user, password) ==
    Await(w, Task("login", 0, "login",
                  Request("POST", "login", 0, [user |-> user, password |-> password]),
                  NoData, Null))

\* a faulty variant of loginResume that shows the workspace after a failure
loginResumeAlwaysMain(w, t) ==
    IF t.resp.ok
    THEN showNotification(
             showMainApp([w EXCEPT !.currentUser = t.resp.data.user,
                                   !.storage = Stringify(t.resp.data.user)]),
             <<"Welcome", "back!">>, "success")
    ELSE showNotification([w EXCEPT !.view = "main"],
                          OrElse(t.resp.message,
                                 <<"Invalid", "email", "or", "password">>), "error")

\* handleLogin after its await (script.js:225-231)
loginResume(w, t) ==
    IF t.resp.ok
    THEN showNotification(
             showMainApp([w EXCEPT !.currentUser = t.resp.data.user,
                                   !.storage = Stringify(t.resp.data.user)]),
             <<"Welcome", "back!">>, "success")
    ELSE showNotification(w, OrElse(t.resp.message,
                                    <<"Invalid", "email", "or", "password">>), "error")

\* handleSignup up to its first await (script.js:234-252)
handleSignup(w, user, password, confirmPassword) ==
    IF password # confirmPassword
    THEN showNotification(w, <<"Passwords", "do", "not", "match">>, "error")
    ELSE IF Len(password) < 6
    THEN showNotification(w, <<"Password", "must", "be", "at", "least", "6",
                               "characters">>, "error")
    ELSE Await(w, Task("signup", 0, "register",
                       Request("POST", "register", 0,
                               [user |-> user, password |-> password]),
                       NoData, Null))

\* handleSignup after POST /auth/register (script.js:252-255, 261-263)
registerResume(w, t) ==
    IF ~t.resp.ok
    THEN showNotification(w, OrElse(t.resp.message, <<"Signup", "failed">>), "error")
    ELSE Await(w, Task("signup", 0, "signupLogin",
                       Request("POST", "login", 0, t.req.body), NoData, Null))

\* handleSignup after its POST /auth/login (script.js:255-263)
signupLoginResume(w, t) ==
    IF t.resp.ok
    THEN showNotification(
             showMainApp([w EXCEPT !.currentUser = t.resp.data.user,
                                   !.storage = Stringify(t.resp.data.user)]),
             <<"Account", "created", "successfully!">>, "success")
    ELSE showNotification(w, OrElse(t.resp.message, <<"Signup", "failed">>), "error")

\* a faulty variant of logout that leaves the record in localStorage
logoutKeepingRecord(w) ==
    showNotification([w EXCEPT !.currentUser = NoUser,
                               !.view = "auth", !.invoiceManager = 0],
                     <<"Logged", "out", "successfully">>, "info")

\* logout (script.js:266-275)
logout(w) ==
    showNotification([w EXCEPT !.currentUser = NoUser, !.storage = NoItem,
                               !.view = "auth", !.invoiceManager = 0],
                     <<"Logged", "out", "successfully">>, "info")

(***************************************************************************)
(* Events.  setupEventListeners (script.js:331-388) adds the listeners of  *)
(* an InvoiceManager to elements of the document and nothing removes them: *)
(* an event runs the handler of every InvoiceManager constructed so far,   *)
(* in the order of construction.  The Edit and Delete buttons of a row     *)
(* call window.invoiceManager instead (script.js:889, 892).                *)
(***************************************************************************)
RECURSIVE EachSubmit(_, _, _, _, _)
EachSubmit(w, m, name, email, status) ==
    IF m > Len(w.instances) THEN w
    ELSE EachSubmit(handleFormSubmit(w, m, name, email, status), m + 1,
                    name, email, status)

RECURSIVE EachConfirmDelete(_, _)
EachConfirmDelete(w, m) ==
    IF m > Len(w.instances) THEN w ELSE EachConfirmDelete(confirmDelete(w, m), m + 1)

RECURSIVE EachOpenModal(_, _)
EachOpenModal(w, m) ==
    IF m > Len(w.instances) THEN w ELSE EachOpenModal(openModal(w, m, Null), m + 1)

RECURSIVE EachCloseModal(_, _)
EachCloseModal(w, m) ==
    IF m > Len(w.instances) THEN w ELSE EachCloseModal(closeModal(w, m), m + 1)

RECURSIVE EachCloseDeleteModal(_, _)
EachCloseDeleteModal(w, m) ==
    IF m > Len(w.instances) THEN w
    ELSE EachCloseDeleteModal(closeDeleteModal(w, m), m + 1)

RECURSIVE EachItemTotal(_, _, _)
EachItemTotal(w, m, i) ==
    IF m > Len(w.instances) THEN w ELSE EachItemTotal(calculateItemTotal(w, i), m + 1, i)

RECURSIVE EachFilter(_, _, _)
EachFilter(w, m, now) ==
    IF m > Len(w.instances) THEN w ELSE EachFilter(filterInvoices(w, m, now), m + 1, now)

MainVisible == view = "main"
NoModal == ~dom.invoiceModal /\ ~dom.deleteModal

\* click on #addInvoiceBtn
ClickAddInvoice ==
    /\ MainVisible /\ NoModal
    /\ Becomes(EachOpenModal(World, 1))
    /\ UNCHANGED <<server, call, outcome>>

\* click on the Edit button of a rendered row
ClickEdit ==
    /\ MainVisible /\ NoModal /\ invoiceManager # 0
    /\ \E i \in 1..Len(dom.tbody) : Becomes(openModal(World, invoiceManager, dom.tbody[i]))
    /\ UNCHANGED <<server, call, outcome>>

\* click on the Delete button of a rendered row
ClickDelete ==
    /\ MainVisible /\ NoModal /\ invoiceManager # 0
    /\ \E i \in 1..Len(dom.tbody) :
          Becomes(openDeleteModal(World, invoiceManager, dom.tbody[i]))
    /\ UNCHANGED <<server, call, outcome>>

\* click on #closeModal, #cancelBtn or the form's backdrop
ClickCloseModal ==
    /\ MainVisible /\ dom.invoiceModal
    /\ Becomes(EachCloseModal(World, 1))
    /\ UNCHANGED <<server, call, outcome>>

\* click on #closeDeleteModal, #cancelDeleteBtn or the dialog's backdrop
ClickCloseDeleteModal ==
    /\ MainVisible /\ dom.deleteModal
    /\ Becomes(EachCloseDeleteModal(World, 1))
    /\ UNCHANGED <<server, call, outcome>>

\* click on #confirmDeleteBtn
ClickConfirmDelete ==
    /\ MainVisible /\ dom.deleteModal
    /\ Becomes(EachConfirmDelete(World, 1))
    /\ UNCHANGED <<server, call, outcome>>

\* the user types a description into row i: no listener
TypeDescription(i, text) ==
    /\ MainVisible /\ dom.invoiceModal /\ i \in 1..Len(dom.rows)
    /\ dom.rows[i].description # text
    /\ Becomes([World EXCEPT !.dom.rows[i].description = text])
    /\ UNCHANGED <<server, call, outcome>>

\* the user types a quantity into row i: 'input' listener (script.js:359-363)
TypeQuantity(i, text) ==
    /\ MainVisible /\ dom.invoiceModal /\ i \in 1..Len(dom.rows)
    /\ dom.rows[i].quantity # text
    /\ Becomes(EachItemTotal([World EXCEPT !.dom.rows[i].quantity = text], 1, i))
    /\ UNCHANGED <<server, call, outcome>>

\* the user types a price into row i: 'input' listener (script.js:359-363)
TypePrice(i, text) ==
    /\ MainVisible /\ dom.invoiceModal /\ i \in 1..Len(dom.rows)
    /\ dom.rows[i].price # text
    /\ Becomes(EachItemTotal([World EXCEPT !.dom.rows[i].price = text], 1, i))
    /\ UNCHANGED <<server, call, outcome>>

\* input on #taxRate: every InvoiceManager's 'input' listener recomputes
\* the totals (script.js:359-367)
RECURSIVE EachTotals(_, _)
EachTotals(w, m) ==
    IF m > Len(w.instances) THEN w ELSE EachTotals(calculateTotals(w), m + 1)

TypeTaxRate(text) ==
    /\ MainVisible /\ dom.invoiceModal
    /\ dom.taxRate # text
    /\ Becomes(EachTotals([World EXCEPT !.dom.taxRate = text], 1))
    /\ UNCHANGED <<server, call, outcome>>

\* click on #addItemBtn: every InvoiceManager adds a row (script.js:352)
RECURSIVE EachAddItemRow(_, _)
EachAddItemRow(w, m) ==
    IF m > Len(w.instances) THEN w ELSE EachAddItemRow(addItemRow(w), m + 1)

ClickAddItem ==
    /\ MainVisible /\ dom.invoiceModal
    /\ Becomes(EachAddItemRow(World, 1))
    /\ UNCHANGED <<server, call, outcome>>

\* click on the remove button of row i: the document 'click' listener of
\* every InvoiceManager (script.js:353-357); the row is detached after the
\* first removal
RECURSIVE EachRemoveItemRow(_, _, _, _)
EachRemoveItemRow(w, m, i, attached) ==
    IF m > Len(w.instances) THEN w
    ELSE IF attached /\ Len(w.dom.rows) > 1
    THEN EachRemoveItemRow(removeItemRow(w, i), m + 1, i, FALSE)
    ELSE IF Len(w.dom.rows) > 1
    THEN EachRemoveItemRow(calculateTotals(w), m + 1, i, attached)
    ELSE EachRemoveItemRow(w, m + 1, i, attached)

ClickRemoveItem(i) ==
    /\ MainVisible /\ dom.invoiceModal /\ i \in 1..Len(dom.rows)
    /\ Becomes(EachRemoveItemRow(World, 1, i, TRUE))
    /\ UNCHANGED <<server, call, outcome>>

\* submit of #invoiceForm with the typed customer name, email and status
SubmitForm(name, email, status) ==
    /\ MainVisible /\ dom.invoiceModal
    /\ Becomes(EachSubmit(World, 1, name, email, status))
    /\ UNCHANGED <<server, call, outcome>>

\* input on #searchInput; now is the day of the clock
TypeSearch(text, now) ==
    /\ MainVisible
    /\ Becomes(EachFilter([World EXCEPT !.dom.searchInput = text], 1, now))
    /\ UNCHANGED <<server, call, outcome>>

\* change of #statusFilter
ChangeStatusFilter(value, now) ==
    /\ MainVisible
    /\ Becomes(EachFilter([World EXCEPT !.dom.statusFilter = value], 1, now))
    /\ UNCHANGED <<server, call, outcome>>

\* change of #dateFilter
ChangeDateFilter(value, now) ==
    /\ MainVisible
    /\ Becomes(EachFilter([World EXCEPT !.dom.dateFilter = value], 1, now))
    /\ UNCHANGED <<server, call, outcome>>

\* submit of #loginFormElement
SubmitLogin(user, password) ==
    /\ view = "auth"
    /\ Becomes(handleLogin(World, user, password))
    /\ UNCHANGED <<server, call, outcome>>

\* submit of #signupFormElement
SubmitSignup(user, password, confirmPassword) ==
    /\ view = "auth"
    /\ Becomes(handleSignup(World, user, password, confirmPassword))
    /\ UNCHANGED <<server, call, outcome>>

\* click on #logoutBtn
ClickLogout ==
    /\ MainVisible
    /\ Becomes(logout(World))
    /\ UNCHANGED <<server, call, outcome>>

(***************************************************************************)
(* The network.                                                            *)
(***************************************************************************)
\* the transport and the remote store answer the request of task i
Respond(i, env) ==
    /\ i \in 1..Len(tasks) /\ ~tasks[i].answered
    /\ \E a \in Answers(tasks[i].req, server, env) :
          /\ tasks' = [tasks EXCEPT ![i].answered = TRUE,
                                    ![i].resp = request(a.transport)]
          /\ server' = a.srv
    /\ notifications' = <<>>
    /\ UNCHANGED <<currentUser, storage, view, invoiceManager, instances, dom,
                   unhandled, call, outcome>>

\* the continuation of a suspended function, by the await it is suspended at
Resume(w, t) ==
    CASE t.pc = "initLoad" -> initResume(w, t)
      [] t.pc = "getCustomers" -> getCustomersResume(w, t)
      [] t.pc = "postCustomer" -> postCustomerResume(w, t)
      [] t.pc = "refetchCustomers" -> refetchCustomersResume(w, t)
      [] t.pc = "writeInvoice" -> writeInvoiceResume(w, t)
      [] t.pc = "innerLoad" -> innerLoadResume(w, t)
      [] t.pc = "outerLoad" -> outerLoadResume(w, t)
      [] t.pc = "delete" -> deleteResume(w, t)
      [] t.pc = "login" -> loginResume(w, t)
      [] t.pc = "register" -> registerResume(w, t)
      [] t.pc = "signupLogin" -> signupLoginResume(w, t)
      [] OTHER -> w

\* the response of task i is delivered: its function runs to its next await
Deliver(i) ==
    /\ i \in 1..Len(tasks) /\ tasks[i].answered
    /\ Becomes(Resume([World EXCEPT !.tasks = RemoveAt(@, i)], tasks[i]))
    /\ UNCHANGED <<server, call, outcome>>

(***************************************************************************)
(* Start-up (script.js:1089-1092): DOMContentLoaded constructs AuthManager, *)
(* whose init runs checkAuthStatus on what localStorage holds.             *)
(***************************************************************************)
BlankDom ==
    [tbody |-> <<>>, totalInvoices |-> 0, totalAmount |-> 0, pendingInvoices |-> 0,
     paidInvoices |-> 0, invoiceNumber |-> 0, rows |-> <<>>, taxRate |-> <<>>,
     subtotal |-> 0, taxAmount |-> 0, invoiceModal |-> FALSE, deleteModal |-> FALSE,
     searchInput |-> <<>>, statusFilter |-> "", dateFilter |-> "",
     modalTitle |-> ""]

Boot(item) ==
    checkAuthStatus([currentUser |-> NoUser, storage |-> item, view |-> "auth",
                     invoiceManager |-> 0, instances |-> <<>>, dom |-> BlankDom,
                     notifications |-> <<>>, tasks |-> <<>>, unhandled |-> FALSE])

\* the remote store at start-up: user 1 has one customer and one invoice
ServerInit ==
    [customers |-> <<[id |-> 1, user_id |-> 1, name |-> <<"C">>, email |-> <<"c">>]>>,
     invoices |-> <<[id |-> 1, customer_id |-> 1, total |-> 1000, status |-> "Unpaid",
                     created_at |-> ServerDay]>>,
     nextCustomerId |-> 2, nextInvoiceId |-> 2]

IdleCall == NetworkDown
NoOutcome == [ok |-> FALSE, message |-> <<>>, data |-> NoPayload]

StartsCalling(item, t) ==
    LET w == Boot(item) IN
    /\ currentUser = w.currentUser
    /\ storage = w.storage
    /\ view = w.view
    /\ invoiceManager = w.invoiceManager
    /\ instances = w.instances
    /\ dom = w.dom
    /\ notifications = w.notifications
    /\ tasks = w.tasks
    /\ unhandled = w.unhandled
    /\ server = ServerInit
    /\ call = t
    /\ outcome = NoOutcome

Starts(item) == StartsCalling(item, IdleCall)

(***************************************************************************)
(* SpecDelete: the session of user 1 restored at start-up; the user        *)
(* deletes invoices from the rendered list.                                *)
(***************************************************************************)
AnyFailure == {NetworkDown, ServerError}
Pending(n) == Len(tasks') <= n

InitRestored == Starts(Stringify(UserRecord(1)))

NextDelete ==
    \/ ClickDelete
    \/ ClickCloseDeleteModal
    \/ ClickConfirmDelete /\ Pending(MaxTasks)
    \/ \E i \in 1..Len(tasks) : Respond(i, Env(AnyFailure, TRUE, {}))
    \/ \E i \in 1..Len(tasks) : Deliver(i)

SpecDelete == InitRestored /\ [][NextDelete]_vars

(***************************************************************************)
(* SpecSession: start-up without a stored session; the user logs in and    *)
(* out, opens the form and submits it.                                     *)
(***************************************************************************)
InitSignedOut == Starts(NoItem)

LoginsInFlight == Cardinality({i \in 1..Len(tasks) : tasks[i].kind = "login"})

NextSession ==
    \/ \E user \in Users, password \in Passwords :
          /\ Len(instances) + LoginsInFlight < MaxInstances
          /\ SubmitLogin(user, password) /\ Pending(MaxTasks)
    \/ ClickLogout
    \/ ClickAddInvoice
    \/ TypeDescription(1, <<"w">>)
    \/ SubmitForm(<<"N">>, <<"a">>, "draft") /\ Pending(MaxTasks)
    \/ \E i \in 1..Len(tasks) : Respond(i, Env({NetworkDown}, FALSE, {"id"}))
    \/ \E i \in 1..Len(tasks) : Deliver(i)

SpecSession == InitSignedOut /\ [][NextSession]_vars

(***************************************************************************)
(* SpecWrite: the session of user 1 restored at start-up; the user creates *)
(* invoices, and may submit the form again while an earlier submit is      *)
(* still in progress.  No request fails.                                   *)
(***************************************************************************)
NextWrite ==
    \/ ClickAddInvoice
    \/ ClickCloseModal
    \/ TypeDescription(1, <<"w">>)
    \/ SubmitForm(<<"N">>, <<"a", " ">>, "sent") /\ Pending(MaxTasks)
    \/ \E i \in 1..Len(tasks) : Respond(i, Env({}, FALSE, {"id", "other"}))
    \/ \E i \in 1..Len(tasks) : Deliver(i)

SpecWrite == InitRestored /\ [][NextWrite]_vars

(***************************************************************************)
(* SpecForm: the restored session of user 1 filling in the first row of    *)
(* the invoice form and submitting it, one operation at a time, with every *)
(* way a submit can be ill-formed.  No request fails.                      *)
(***************************************************************************)
Names == {<<" ">>, <<"N">>}
Emails == {<<" ">>, <<"c", " ">>}
Descriptions == {<<" ">>, <<"w">>}
Quantities == {<<0>>}
Prices == {<<0 - 100>>}

NextForm ==
    \/ ClickAddInvoice
    \/ \E text \in Descriptions : TypeDescription(1, text)
    \/ \E text \in Quantities : TypeQuantity(1, text)
    \/ \E text \in Prices : TypePrice(1, text)
    \/ \E name \in Names, email \in Emails :
          SubmitForm(name, email, "draft") /\ Pending(MaxPending)
    \/ \E i \in 1..Len(tasks) : Respond(i, Env({}, FALSE, {"id"}))
    \/ \E i \in 1..Len(tasks) : Deliver(i)

SpecForm == InitRestored /\ [][NextForm]_vars

(***************************************************************************)
(* SpecLoad: the restored session of user 1 creating invoices one          *)
(* operation at a time against a network that can fail and a server that   *)
(* can answer GET /invoices with something that is not a list of invoices. *)
(***************************************************************************)
NextLoad ==
    \/ ClickAddInvoice
    \/ TypeDescription(1, <<"w">>)
    \/ SubmitForm(<<"N">>, <<"a">>, "paid") /\ Pending(MaxPending)
    \/ \E i \in 1..Len(tasks) : Respond(i, Env(AnyFailure, TRUE, {"id"}))
    \/ \E i \in 1..Len(tasks) : Deliver(i)

SpecLoad == InitRestored /\ [][NextLoad]_vars

(***************************************************************************)
(* SpecStatus: the restored session of user 1 creating and editing         *)
(* invoices with every status the form offers.  The user submits only when *)
(* no operation is in progress; no request fails.  The amount of an edited *)
(* invoice is read from a cell the statistics also write, so it is capped. *)
(***************************************************************************)
Statuses == {"draft", "sent", "unpaid", "paid", "overdue"}

OneAtATime == tasks' = tasks \/ tasks = <<>>

NextStatus ==
    \/ ClickAddInvoice
    \/ ClickEdit
    \/ TypeDescription(1, <<"w">>)
    \/ \E status \in Statuses :
          /\ dom.totalAmount <= MaxTotal
          /\ SubmitForm(<<"N">>, <<"c">>, status) /\ OneAtATime
    \/ \E i \in 1..Len(tasks) : Respond(i, Env({}, FALSE, {"id"}))
    \/ \E i \in 1..Len(tasks) : Deliver(i)

SpecStatus == InitRestored /\ [][NextStatus]_vars

(***************************************************************************)
(* SpecRequest: one call of ApiService.request against every behaviour of  *)
(* the transport: no connection, or a response with a status, a content    *)
(* type and a body.                                                        *)
(***************************************************************************)
Statuses_Http == {200, 201, 400, 401, 404, 500}
Messages == {<<>>, <<"Invalid", "credentials">>, <<"Login", "failed">>,
             <<"Could", "not", "fetch", "invoices">>}
Transports ==
    {NetworkDown}
    \cup {Transport("up", st, "json", m, e, <<>>, NoPayload) :
             st \in Statuses_Http, m \in Messages, e \in Messages}
    \cup {Transport("up", st, ct, <<>>, <<>>, x, NoPayload) :
             st \in Statuses_Http, ct \in {"html", "none"}, x \in Messages}

InitRequest == \E t \in Transports : StartsCalling(NoItem, t)

CallRequest ==
    /\ outcome = NoOutcome
    /\ outcome' = request(call)
    /\ UNCHANGED <<currentUser, storage, view, invoiceManager, instances, dom,
                   notifications, tasks, unhandled, server, call>>

NextRequest == CallRequest

SpecRequest == InitRequest /\ [][NextRequest]_vars

(***************************************************************************)
(* SpecAuth: AuthManager alone, from a browser with or without a saved     *)
(* session: logins and signups with right and wrong passwords, logout, and *)
(* a network that can fail.  No invoice form is used.                      *)
(***************************************************************************)
InitAuth == \E item \in {NoItem, Stringify(UserRecord(1))} : Starts(item)

SessionsStarted == Len(instances) + Cardinality({i \in 1..Len(tasks) : tasks[i].inst = 0})

NextAuth ==
    \/ \E user \in Users, password \in Passwords :
          /\ SessionsStarted < MaxInstances
          /\ SubmitLogin(user, password) /\ Pending(MaxTasks)
    \/ \E user \in Users, password \in Passwords, confirmPassword \in Passwords :
          /\ SessionsStarted < MaxInstances
          /\ SubmitSignup(user, password, confirmPassword) /\ Pending(MaxTasks)
    \/ ClickLogout
    \/ \E i \in 1..Len(tasks) : Respond(i, Env(AnyFailure, FALSE, {"id"}))
    \/ \E i \in 1..Len(tasks) : Deliver(i)

SpecAuth == InitAuth /\ [][NextAuth]_vars

(***************************************************************************)
(* SpecFilter: the restored session of user 1 after its start-up load has  *)
(* returned some list of invoices; the user types search terms and changes *)
(* the status and the date filter, on one of two days.                     *)
(***************************************************************************)
LoadedRecord(id, user, name, email, status, day) ==
    [id |-> Num(id), user_id |-> user, customer_name |-> name, customer_email |-> email,
     total |-> 1000, status |-> status, created_at |-> day]

LoadedRecords ==
    {LoadedRecord(1, 1, <<"C", "n">>, <<"c">>, "Paid", 41),
     LoadedRecord(2, 1, <<"N">>, <<"x">>, "Unpaid", 30),
     LoadedRecord(1, 1, <<"N">>, <<"n", "v">>, "Paid", 5),
     LoadedRecord(2, 2, <<"C">>, <<"c">>, "Paid", 41)}

Lists(n) == UNION {[1..k -> LoadedRecords] : k \in 0..n}

\* the state when the start-up load of a restored session has returned items
Loaded(items) ==
    LET w == Boot(Stringify(UserRecord(1)))
        t == [w.tasks[1] EXCEPT !.answered = TRUE,
                                !.resp = request(JsonOk(ArrayPayload(items)))]
    IN Resume([w EXCEPT !.tasks = <<>>], t)

InitFilter ==
    \E items \in Lists(MaxInvoices) :
       LET w == Loaded(items) IN
       /\ currentUser = w.currentUser
       /\ storage = w.storage
       /\ view = w.view
       /\ invoiceManager = w.invoiceManager
       /\ instances = w.instances
       /\ dom = w.dom
       /\ notifications = w.notifications
       /\ tasks = w.tasks
       /\ unhandled = w.unhandled
       /\ server = ServerInit
       /\ call = IdleCall
       /\ outcome = NoOutcome

SearchTexts == {<<>>, <<"C">>, <<"n", "v">>}
StatusFilters == {"", "paid", "unpaid"}
DateFilters == {"", "today", "week", "month"}
Nows == {41, 42}

NextFilter ==
    \/ \E text \in SearchTexts, now \in Nows : TypeSearch(text, now)
    \/ \E value \in StatusFilters, now \in Nows : ChangeStatusFilter(value, now)
    \/ \E value \in DateFilters, now \in Nows : ChangeDateFilter(value, now)

SpecFilter == InitFilter /\ [][NextFilter]_vars

(***************************************************************************)
(* SpecStatistics: the restored session of user 1 whose start-up load has  *)
(* been answered with some list of invoices, of either user, with every    *)
(* stored status and one the front-end does not know; the response is then *)
(* delivered, and init computes the statistics.                            *)
(***************************************************************************)
CountedRecords ==
    {[id |-> Num(id), user_id |-> user, customer_name |-> <<"C">>,
      customer_email |-> <<"c">>, total |-> total, status |-> status,
      created_at |-> ServerDay] :
        id \in {1}, user \in Users, total \in {10000, 25050},
        status \in {"Paid", "Unpaid", "Overdue", "Draft"}}

CountedLists == UNION {[1..k -> CountedRecords] : k \in 0..MaxInvoices}

\* the start-up load of a restored session has been answered with items
Answered(items) ==
    LET w == Boot(Stringify(UserRecord(1))) IN
    [w EXCEPT !.tasks[1].answered = TRUE,
              !.tasks[1].resp = request(JsonOk(ArrayPayload(items)))]

InitStatistics ==
    \E items \in CountedLists :
       LET w == Answered(items) IN
       /\ currentUser = w.currentUser
       /\ storage = w.storage
       /\ view = w.view
       /\ invoiceManager = w.invoiceManager
       /\ instances = w.instances
       /\ dom = w.dom
       /\ notifications = w.notifications
       /\ tasks = w.tasks
       /\ unhandled = w.unhandled
       /\ server = ServerInit
       /\ call = IdleCall
       /\ outcome = NoOutcome

NextStatistics == \E i \in 1..Len(tasks) : Deliver(i)

SpecStatistics == InitStatistics /\ [][NextStatistics]_vars

(***************************************************************************)
(* SpecEdit: the restored session of user 1 editing the form: opening it   *)
(* for a new or a listed invoice, adding and removing rows, typing         *)
(* quantities, prices and a tax rate, while the start-up load completes.   *)
(***************************************************************************)
EditQuantities == {<<1>>, <<2>>}
EditPrices == {<<>>, <<500>>}
TaxRates == {<<>>, <<10>>}

NextEdit ==
    \/ ClickAddInvoice
    \/ ClickEdit
    \/ ClickCloseModal
    \/ ClickAddItem /\ Len(dom'.rows) <= MaxRows
    \/ \E i \in 1..MaxRows : ClickRemoveItem(i)
    \/ \E i \in 1..MaxRows, text \in EditQuantities : TypeQuantity(i, text)
    \/ \E i \in 1..MaxRows, text \in EditPrices : TypePrice(i, text)
    \/ \E text \in TaxRates : TypeTaxRate(text)
    \/ \E i \in 1..Len(tasks) : Respond(i, Env({}, FALSE, {"id"}))
    \/ \E i \in 1..Len(tasks) : Deliver(i)

SpecEdit == InitRestored /\ [][NextEdit]_vars

(***************************************************************************)
(* SpecCustomer: the restored session of user 1 creating invoices for a    *)
(* customer the store holds and for one it does not, one operation at a    *)
(* time, against a network that can fail and a store that answers          *)
(* POST /customers in every shape, or without having stored the customer.  *)
(***************************************************************************)
AnsweredShapes == CreatedShapes \cup {"unsaved"}
CustomerEmails == {<<"c">>, <<"a">>}

NextCustomer ==
    \/ ClickAddInvoice
    \/ TypeDescription(1, <<"w">>)
    \/ \E email \in CustomerEmails :
          SubmitForm(<<"N">>, email, "paid") /\ OneAtATime
    \/ \E i \in 1..Len(tasks) : Respond(i, Env(AnyFailure, FALSE, AnsweredShapes))
    \/ \E i \in 1..Len(tasks) : Deliver(i)

SpecCustomer == InitRestored /\ [][NextCustomer]_vars

(***************************************************************************)
(* SpecTotal: the restored session of user 1 filling in the rows and the   *)
(* tax rate of the form for a new invoice and submitting it, while the     *)
(* load of start-up may still be in progress.  No request fails.           *)
(***************************************************************************)
RowDescriptions == {<<>>, <<"w">>}
RowPrices == {<<>>, <<500>>}

NextTotal ==
    \/ ClickAddInvoice
    \/ ClickAddItem /\ Len(dom'.rows) <= MaxRows
    \/ \E i \in 1..MaxRows, text \in RowDescriptions : TypeDescription(i, text)
    \/ \E i \in 1..MaxRows, text \in RowPrices : TypePrice(i, text)
    \/ \E text \in TaxRates : TypeTaxRate(text)
    \/ SubmitForm(<<"N">>, <<"c">>, "paid") /\ Pending(MaxPending)
    \/ \E i \in 1..Len(tasks) : Respond(i, Env({}, FALSE, {"id"}))
    \/ \E i \in 1..Len(tasks) : Deliver(i)

SpecTotal == InitRestored /\ [][NextTotal]_vars

(***************************************************************************)
(* SpecInterleave: the restored session of user 1, who has two invoices:   *)
(* the user edits invoice 1 and deletes invoice 2, and may close a dialog  *)
(* while its request is in progress.  No request fails.                    *)
(***************************************************************************)
SecondInvoice ==
    [id |-> 2, customer_id |-> 1, total |-> 0, status |-> "Paid", created_at |-> ServerDay]

ServerTwoInvoices ==
    [ServerInit EXCEPT !.invoices = Append(@, SecondInvoice), !.nextInvoiceId = 3]

InitTwoInvoices ==
    LET w == Boot(Stringify(UserRecord(1))) IN
    /\ currentUser = w.currentUser
    /\ storage = w.storage
    /\ view = w.view
    /\ invoiceManager = w.invoiceManager
    /\ instances = w.instances
    /\ dom = w.dom
    /\ notifications = w.notifications
    /\ tasks = w.tasks
    /\ unhandled = w.unhandled
    /\ server = ServerTwoInvoices
    /\ call = IdleCall
    /\ outcome = NoOutcome

NextInterleave ==
    \/ ClickEdit /\ instances'[invoiceManager].currentEditingId = Str(1)
    \/ ClickDelete /\ instances'[invoiceManager].currentEditingId = Str(2)
    \/ ClickCloseModal
    \/ ClickCloseDeleteModal
    \/ ClickConfirmDelete /\ Pending(MaxTasks)
    \/ ClickAddItem /\ Len(dom'.rows) <= 1
    \/ TypeDescription(1, <<"w">>)
    \/ /\ dom.totalAmount <= MaxTotal
       /\ SubmitForm(<<"N">>, <<"c">>, "paid") /\ Pending(MaxTasks)
    \/ \E i \in 1..Len(tasks) : Respond(i, Env({}, FALSE, {"id"}))
    \/ \E i \in 1..Len(tasks) : Deliver(i)

SpecInterleave == InitTwoInvoices /\ [][NextInterleave]_vars

(***************************************************************************)
(* SpecStale: the restored session of user 1 creating an invoice and, from *)
(* the moment the form has closed, deleting invoices while the last load   *)
(* of the submit is still in progress.  No request fails.                  *)
(***************************************************************************)
NextStale ==
    \/ ClickAddInvoice
    \/ TypeDescription(1, <<"w">>)
    \/ SubmitForm(<<"N">>, <<"c">>, "paid") /\ OneAtATime
    \/ ClickDelete
    \/ ClickConfirmDelete /\ Pending(MaxTasks)
    \/ \E i \in 1..Len(tasks) : Respond(i, Env({}, FALSE, {"id"}))
    \/ \E i \in 1..Len(tasks) : Deliver(i)

SpecStale == InitRestored /\ [][NextStale]_vars

(***************************************************************************)
(* SpecRender: the restored session of user 1 with a search term or a      *)
(* status filter set while invoices are loaded, created and deleted.  The  *)
(* date filter, which depends on the clock, stays unset.  No request       *)
(* fails.                                                                  *)
(***************************************************************************)
NextRender ==
    \/ \E text \in SearchTexts, now \in Nows : TypeSearch(text, now)
    \/ \E value \in StatusFilters, now \in Nows : ChangeStatusFilter(value, now)
    \/ ClickAddInvoice
    \/ TypeDescription(1, <<"w">>)
    \/ SubmitForm(<<"N">>, <<"c">>, "paid") /\ OneAtATime
    \/ ClickDelete
    \/ ClickConfirmDelete /\ Pending(MaxTasks)
    \/ \E i \in 1..Len(tasks) : Respond(i, Env({}, FALSE, {"id"}))
    \/ \E i \in 1..Len(tasks) : Deliver(i)

SpecRender == InitRestored /\ [][NextRender]_vars

(***************************************************************************)
(* Claims.                                                                 *)
(***************************************************************************)
\* the step delivers the response of task i and the function ends there
Completes(i) == i \in 1..Len(tasks) /\ tasks[i].answered /\ tasks' = RemoveAt(tasks, i)

\* the step is a user event that starts operations: the functions suspended
\* before it are still suspended, and new ones follow them
StartsOperations ==
    /\ Len(tasks') > Len(tasks)
    /\ SubSeq(tasks', 1, Len(tasks)) = tasks

\* C1: every failure of a network call or of local validation is caught inside
\* the operation that made it: no handler ends in an uncaught exception or an
\* unhandled rejected promise.
C1_FailuresAreCaught == unhandled = FALSE

\* C2: when DELETE /invoices/{id} of a delete confirmed from a rendered row has
\* succeeded, no invoice of the local collection has that id, no request was
\* issued by the step, no rendered row shows it and the invoice count of the
\* statistics does not count it.
C2_DeleteRemovesInvoice ==
    [][\A i \in 1..Len(tasks) :
          (tasks[i].pc = "delete" /\ tasks[i].resp.ok /\ Completes(i)) =>
              LET m == tasks[i].inst
                  n == tasks[i].editId.v
              IN /\ \A inv \in Range(instances'[m].invoices) : inv.id.v # n
                 /\ \A row \in Range(dom'.tbody) : row.v # n
                 /\ dom'.totalInvoices =
                       Cardinality({k \in 1..Len(instances[m].invoices) :
                                       /\ instances[m].invoices[k].userId = instances[m].userId
                                       /\ instances[m].invoices[k].id.v # n})]_vars

\* C3: a user event that starts operations starts exactly one, and starts it on
\* the InvoiceManager of the current session (the one window.invoiceManager
\* names): an InvoiceManager of a session ended by logout starts none.
C3_OneWorkspaceHandlesEvents ==
    [][(StartsOperations /\ tasks'[Len(tasks')].kind # "login") =>
          /\ Len(tasks') = Len(tasks) + 1
          /\ tasks'[Len(tasks')].inst = invoiceManager']_vars

\* C4: a login that completes successfully while a session is authenticated
\* changes neither the session in memory, nor the stored session, nor the
\* InvoiceManager.
C4_SecondLoginHasNoEffect ==
    [][\A i \in 1..Len(tasks) :
          (tasks[i].pc = "login" /\ tasks[i].answered /\ tasks[i].resp.ok
             /\ currentUser # NoUser /\ tasks' = RemoveAt(tasks, i)) =>
              /\ currentUser' = currentUser
              /\ storage' = storage
              /\ invoiceManager' = invoiceManager
              /\ instances' = instances]_vars

\* C5: the workspace issues POST /customers only for an email for which the
\* remote store holds no customer of the user at that moment.
C5_NoPostForExistingCustomer ==
    [][\A i \in 1..Len(tasks') :
          (/\ tasks'[i].pc = "postCustomer" /\ ~tasks'[i].answered
           /\ ~\E j \in 1..Len(tasks) : tasks[j] = tasks'[i]) =>
              ~\E c \in Range(server.customers) :
                  /\ c.user_id = tasks'[i].req.body.user_id
                  /\ c.email = tasks'[i].req.body.email]_vars

\* C9: when the last request in flight completes and it is a successful
\* GET /invoices, the local collection is the remap of the list the remote
\* store holds for the user (the store changes only by the writes of the
\* workspace, so this says that local state has converged after a write).
C9_ReloadConverges ==
    [][\A i \in 1..Len(tasks) :
          (/\ tasks[i].pc \in {"initLoad", "innerLoad", "outerLoad"}
           /\ tasks[i].resp.ok /\ Remappable(tasks[i].resp.data)
           /\ Completes(i) /\ tasks' = <<>>) =>
              instances'[tasks[i].inst].invoices =
                  Remap(InvoiceList(server', instances[tasks[i].inst].userId))]_vars

\* C6: a JSON response with a non-success status fails with the body's
\* message, else its error, else 'Request failed with status N', whatever
\* text the message contains; 'Cannot connect to server' is the failure of
\* a transport that could not connect, and of no other call.
C6_FailureMessages ==
    outcome # NoOutcome =>
        /\ (call.net = "up" /\ call.ctype = "json" /\ ~(call.status \in 200..299)) =>
              /\ ~outcome.ok
              /\ outcome.message =
                    OrElse(call.message,
                           OrElse(call.error, RequestFailedWithStatus(call.status)))
        /\ (~outcome.ok /\ outcome.message = CannotConnect) => call.net = "down"

\* a row of the form that is not a well-formed line item
IllFormed(row) ==
    \/ Trim(row.description) = <<>>
    \/ ParseFloatOr0(row.quantity) <= 0
    \/ ParseFloatOr0(row.price) < 0

NoWellFormedRow == \A k \in 1..Len(dom.rows) : IllFormed(dom.rows[k])

ErrorShown(message) == <<[message |-> message, type |-> "error"]>>

\* C7: a submit of a form with no well-formed line item, or with a customer
\* name or email that is empty after trimming, is rejected locally: it shows
\* one error notification ('Please add at least one item to the invoice.'
\* when no row is well-formed), issues no request, and leaves the collection,
\* the editing id, the form and the server as they were.
C7_InvalidSubmitRejected ==
    [][\A name \in Names, email \in Emails :
          (/\ SubmitForm(name, email, "draft")
           /\ (NoWellFormedRow \/ Trim(name) = <<>> \/ Trim(email) = <<>>)) =>
             /\ Len(notifications') = 1
             /\ notifications'[1].type = "error"
             /\ NoWellFormedRow => notifications' = ErrorShown(AddItemMessage)
             /\ tasks' = tasks
             /\ instances' = instances
             /\ dom' = dom
             /\ server' = server]_vars

\* a submit has been rejected for its only row, which has a description and
\* a quantity but a negative price
C7_RejectedForNegativePrice ==
    /\ notifications = ErrorShown(AddItemMessage)
    /\ dom.invoiceModal
    /\ Len(dom.rows) = 1
    /\ Trim(dom.rows[1].description) # <<>>
    /\ ParseFloatOr0(dom.rows[1].quantity) > 0
    /\ ParseFloatOr0(dom.rows[1].price) < 0

LoadPcs == {"initLoad", "innerLoad", "outerLoad"}

\* C8: when the response of a load is delivered and the load has failed (the
\* GET failed or its body cannot be remapped), the collection is what it
\* was, exactly one error notification is shown, and the step issues no
\* request but the one the enclosing operation issues after any load (the
\* reload of handleFormSubmit after the load of addInvoice/updateInvoice);
\* when the load has succeeded, the collection is the remap of the response.
C8_LoadFailureKeepsCollection ==
    [][\A i \in 1..Len(tasks) :
          (tasks[i].pc \in LoadPcs /\ Deliver(i)) =>
             LET t == tasks[i]
                 rest == RemoveAt(tasks, i)
             IN IF t.resp.ok /\ t.resp.data.kind = "array"
                     /\ \A k \in 1..Len(t.resp.data.items) : t.resp.data.items[k].id # Null
                THEN /\ Len(instances'[t.inst].invoices) = Len(t.resp.data.items)
                     /\ \A k \in 1..Len(t.resp.data.items) :
                           /\ instances'[t.inst].invoices[k].id = t.resp.data.items[k].id
                           /\ instances'[t.inst].invoices[k].total =
                                 t.resp.data.items[k].total
                ELSE /\ instances'[t.inst].invoices = instances[t.inst].invoices
                     /\ notifications' = ErrorShown(FailedToLoad)
                     /\ IF t.pc = "innerLoad"
                        THEN /\ Len(tasks') = Len(rest) + 1
                             /\ SubSeq(tasks', 1, Len(rest)) = rest
                             /\ tasks'[Len(tasks')].pc = "outerLoad"
                        ELSE tasks' = rest]_vars

\* a load has failed while the collection held an invoice, and the invoice
\* is still there
C8_FailedLoadKeptInvoices ==
    /\ notifications = ErrorShown(FailedToLoad)
    /\ tasks = <<>>
    /\ Len(instances) = 1
    /\ instances[1].invoices # <<>>

CreateUpdateStatus(status) ==
    CASE status = "draft" -> "unpaid"
      [] status = "sent" -> "unpaid"
      [] status = "unpaid" -> "unpaid"
      [] status = "paid" -> "paid"
      [] status = "overdue" -> "overdue"

ReadStatus(status) ==
    CASE status = "Paid" -> "paid"
      [] status = "Unpaid" -> "unpaid"
      [] status = "Overdue" -> "overdue"

\* C10: the status a create (POST) or an update (PUT) sends is unpaid for
\* draft, sent and unpaid, paid for paid and overdue for overdue, and mapping
\* it again gives the same status; every invoice of the collection has the
\* status paid, unpaid or overdue, the lower-case form of the Paid, Unpaid
\* or Overdue the response of the load gave.
C10_StatusMapping ==
    /\ [](\A i \in 1..Len(tasks) :
             tasks[i].pc = "writeInvoice" =>
                LET sent == tasks[i].req.body.status IN
                /\ tasks[i].data.status \in Statuses
                /\ sent = CreateUpdateStatus(tasks[i].data.status)
                /\ sent \in {"unpaid", "paid", "overdue"}
                /\ addStatusMap(sent) = sent
                /\ updateStatusMap(sent) = sent)
    /\ [](\A m \in 1..Len(instances) : \A k \in 1..Len(instances[m].invoices) :
             instances[m].invoices[k].status \in {"paid", "unpaid", "overdue"})
    /\ [][\A i \in 1..Len(tasks) :
             (tasks[i].pc \in LoadPcs /\ tasks[i].resp.ok /\ Completes(i)
                 /\ tasks[i].resp.data.kind = "array") =>
                \A k \in 1..Len(tasks[i].resp.data.items) :
                   /\ tasks[i].resp.data.items[k].status \in {"Paid", "Unpaid", "Overdue"}
                   /\ instances'[tasks[i].inst].invoices[k].status =
                         ReadStatus(tasks[i].resp.data.items[k].status)]_vars

\* an update of an invoice submitted as sent is in flight while the
\* collection holds an invoice read as overdue
C10_UpdateSentWhileOverdue ==
    \E i \in 1..Len(tasks) :
       /\ tasks[i].pc = "writeInvoice"
       /\ tasks[i].req.method = "PUT"
       /\ tasks[i].data.status = "sent"
       /\ \E k \in 1..Len(instances[1].invoices) :
             instances[1].invoices[k].status = "overdue"

\* C11: when the response of a login is delivered and the login has
\* succeeded, the returned identity is the session in memory and in
\* localStorage and the main view is shown; when it has failed, the session
\* in memory and in storage, the view and the InvoiceManagers are what they
\* were (empty, the authentication view and none for a signed-out browser),
\* one error notification is shown and no request is issued.
C11_LoginOutcome ==
    [][\A i \in 1..Len(tasks) :
          (tasks[i].pc = "login" /\ Deliver(i)) =>
             LET t == tasks[i] IN
             IF t.resp.ok
             THEN /\ currentUser' = t.resp.data.user
                  /\ currentUser'.id = t.req.body.user
                  /\ storage'.present /\ storage'.json = t.resp.data.user
                  /\ view' = "main"
             ELSE /\ currentUser' = currentUser
                  /\ storage' = storage
                  /\ view' = view
                  /\ instances' = instances
                  /\ invoiceManager' = invoiceManager
                  /\ (currentUser = NoUser =>
                         /\ currentUser' = NoUser /\ ~storage'.present
                         /\ view' = "auth" /\ invoiceManager' = 0)
                  /\ Len(notifications') = 1
                  /\ notifications'[1].type = "error"
                  /\ tasks' = RemoveAt(tasks, i)]_vars

\* a login with a wrong password has failed in a signed-out browser that has
\* never had a workspace
C11_LoginRefused ==
    /\ notifications = <<[message |-> <<"Invalid", "credentials">>, type |-> "error"]>>
    /\ currentUser = NoUser /\ ~storage.present /\ view = "auth"
    /\ instances = <<>> /\ tasks = <<>>

\* the step is a filter event on the day now
FilterEvent(now) ==
    \/ \E text \in SearchTexts : TypeSearch(text, now)
    \/ \E value \in StatusFilters : ChangeStatusFilter(value, now)
    \/ \E value \in DateFilters : ChangeDateFilter(value, now)

\* invoice inv of a workspace of user satisfies every filter that is set
PassesFilters(inv, user, term, status, range, now) ==
    /\ inv.userId = user
    /\ \/ term = <<>>
       \/ \E field \in {InvoiceNumberText(inv.invoiceNumber), inv.customerName,
                        inv.customerEmail} :
             \E i \in 0..(Len(field) - Len(term)) :
                LowerText(SubSeq(field, i + 1, i + Len(term))) = LowerText(term)
    /\ status = "" \/ inv.status = status
    /\ \/ range = ""
       \/ range = "today" /\ inv.invoiceDate = now
       \/ range = "week" /\ now - inv.invoiceDate <= 7
       \/ range = "month" /\ now - inv.invoiceDate <= 30

\* C12: after a filter event the listed rows are, in the collection's order,
\* the invoices of the workspace's user that satisfy the search term
\* (case-insensitive substring of number, customer name or email), the
\* status filter and the date range together; the three stages give the
\* same list in each of their six orders; the event issues no request and
\* leaves the collection and the server as they were.
C12_FilterIsConjunction ==
    [][\A now \in Nows :
          FilterEvent(now) =>
             LET inst == instances[invoiceManager]
                 term == dom'.searchInput
                 status == dom'.statusFilter
                 range == dom'.dateFilter
                 kept == {k \in 1..Len(inst.invoices) :
                             PassesFilters(inst.invoices[k], inst.userId, term, status,
                                           range, now)}
                 own == UserInvoices(inst)
                 S(x) == IF term = <<>> THEN x ELSE bySearch(x, LowerText(term))
                 T(x) == IF status = "" THEN x ELSE byStatus(x, status)
                 D(x) == IF range = "" THEN x ELSE byDate(x, range, now)
             IN /\ Len(dom'.tbody) = Cardinality(kept)
                /\ \A j \in 1..Len(dom'.tbody) :
                      \E k \in kept :
                         /\ dom'.tbody[j].v = inst.invoices[k].id.v
                         /\ Cardinality({i \in kept : i < k}) = j - 1
                /\ \A s \in {S(own)}, t \in {T(own)}, d \in {D(own)} :
                      \A ts \in {T(s)}, ds \in {D(s)}, st \in {S(t)},
                         dt \in {D(t)}, sd \in {S(d)}, td \in {T(d)} :
                         \A all \in {D(ts)} :
                            /\ all = D(st) /\ all = T(ds) /\ all = T(sd)
                            /\ all = S(dt) /\ all = S(td)
                /\ tasks' = tasks
                /\ instances' = instances
                /\ server' = server]_vars

\* all three filters are set and they keep one invoice of two that the
\* user owns
C12_ThreeFiltersKeepOne ==
    /\ dom.searchInput # <<>> /\ dom.statusFilter # "" /\ dom.dateFilter # ""
    /\ Len(dom.tbody) = 1
    /\ Len(UserInvoices(instances[1])) = 2

\* the sum of the totals of the invoices at the positions in keep
RECURSIVE TotalOf(_, _)
TotalOf(invoices, keep) ==
    IF keep = {} THEN 0
    ELSE LET k == CHOOSE k \in keep : TRUE
         IN invoices[k].total + TotalOf(invoices, keep \ {k})

\* C13: when init has computed the statistics, the count is the number of
\* invoices of the workspace's user, the total amount is the sum of their
\* totals, pending is the number of them with status draft, sent or unpaid
\* and paid the number with status paid: invoices of another user count
\* nowhere and overdue invoices are neither pending nor paid.
C13_StatisticsOfOwnInvoices ==
    [][\A i \in 1..Len(tasks) :
          (tasks[i].pc = "initLoad" /\ Deliver(i)) =>
             LET inst == instances'[tasks[i].inst]
                 own == {k \in 1..Len(inst.invoices) :
                            inst.invoices[k].userId = inst.userId}
             IN /\ dom'.totalInvoices = Cardinality(own)
                /\ dom'.totalAmount = TotalOf(inst.invoices, own)
                /\ dom'.pendingInvoices =
                      Cardinality({k \in own : inst.invoices[k].status
                                                  \in {"draft", "sent", "unpaid"}})
                /\ dom'.paidInvoices =
                      Cardinality({k \in own : inst.invoices[k].status = "paid"})]_vars

\* the statistics of two unpaid invoices of 100.00 and 250.50
C13_TwoUnpaidInvoices ==
    /\ tasks = <<>>
    /\ Len(instances[1].invoices) = 2
    /\ \A k \in 1..2 : instances[1].invoices[k].userId = 1
                          /\ instances[1].invoices[k].status = "unpaid"
    /\ instances[1].invoices[1].total = 10000
    /\ instances[1].invoices[2].total = 25050
    /\ dom.totalInvoices = 2 /\ dom.totalAmount = 35050
    /\ dom.pendingInvoices = 2 /\ dom.paidInvoices = 0

\* the step is an edit of the form
FormEdit ==
    \/ ClickAddInvoice
    \/ ClickEdit
    \/ ClickAddItem
    \/ \E i \in 1..MaxRows : ClickRemoveItem(i)
    \/ \E i \in 1..MaxRows, text \in EditQuantities : TypeQuantity(i, text)
    \/ \E i \in 1..MaxRows, text \in EditPrices : TypePrice(i, text)
    \/ \E text \in TaxRates : TypeTaxRate(text)

RECURSIVE LineTotals(_)
LineTotals(rows) ==
    IF rows = <<>> THEN 0
    ELSE ParseFloatOr0(Head(rows).quantity) * ParseFloatOr0(Head(rows).price)
            + LineTotals(Tail(rows))

\* C14: after an edit of the form, the line total of each row is its
\* quantity times its price, the subtotal is the sum of the line totals of
\* the rows in the form, the tax is subtotal * taxRate / 100 and the
\* displayed total is subtotal + tax; the removal of the only row is refused.
C14_FormTotals ==
    [][FormEdit =>
          /\ \A k \in 1..Len(dom'.rows) :
                ParseFloatOr0(dom'.rows[k].total) =
                   ParseFloatOr0(dom'.rows[k].quantity) * ParseFloatOr0(dom'.rows[k].price)
          /\ dom'.subtotal = LineTotals(dom'.rows)
          /\ dom'.taxAmount = RoundDiv(dom'.subtotal * ParseFloatOr0(dom'.taxRate), 100)
          /\ dom'.totalAmount = dom'.subtotal + dom'.taxAmount
          /\ (Len(dom.rows) = 1 /\ ClickRemoveItem(1)) => dom'.rows = dom.rows]_vars

\* the requests a step that delivers the response of task i issues
Issued(i) ==
    LET before == Len(tasks) - 1
    IN [k \in 1..(Len(tasks') - before) |-> tasks'[before + k].req]

\* the ids of the customers of a list that have the email, in list order
RECURSIVE IdsWithEmail(_, _)
IdsWithEmail(items, email) ==
    IF items = <<>> THEN <<>>
    ELSE (IF Head(items).email = email THEN <<Head(items).id>> ELSE <<>>)
             \o IdsWithEmail(Tail(items), email)

ListedIds(payload, email) ==
    IF payload.kind = "array" THEN IdsWithEmail(payload.items, email) ELSE <<>>

\* the step issues one request, an invoice write for the customer id
WritesInvoiceFor(i, id) ==
    /\ Len(Issued(i)) = 1
    /\ Issued(i)[1].res = "invoices" /\ Issued(i)[1].method \in {"POST", "PUT"}
    /\ Issued(i)[1].body.customer_id = id

\* the step issues one request, a GET of the user's customers
FetchesCustomers(i) ==
    /\ Len(Issued(i)) = 1
    /\ Issued(i)[1].res = "customers" /\ Issued(i)[1].method = "GET"

\* C15: getOrCreateCustomer(name, email): when the fetched list holds a
\* customer with exactly the email, the invoice is written for the id of the
\* first such customer and no POST /customers is issued; otherwise one
\* POST /customers is issued, and the id is the response's id, else its
\* customer.id, else its data.id, else that of the customer with the email in
\* a re-fetched list; 'Customer was created but could not be retrieved' is
\* shown exactly when all of these yield no customer, and then no request is
\* issued.
C15_ResolveCustomer ==
    [][/\ \A i \in 1..Len(tasks) :
             (tasks[i].answered /\ tasks[i].resp.ok /\ Deliver(i)) =>
                LET t == tasks[i]
                    listed == ListedIds(t.resp.data, t.data.customerEmail)
                IN /\ t.pc = "getCustomers" =>
                         IF listed # <<>> THEN WritesInvoiceFor(i, listed[1])
                         ELSE Issued(i) =
                                  <<Request("POST", "customers", 0,
                                            [user_id |-> instances[t.inst].userId,
                                             name |-> t.data.customerName,
                                             email |-> t.data.customerEmail])>>
                   /\ t.pc = "postCustomer" =>
                         IF t.resp.data.shape \in {"id", "customer", "data"}
                         THEN WritesInvoiceFor(i, t.resp.data.id)
                         ELSE FetchesCustomers(i)
                   /\ t.pc = "refetchCustomers" =>
                         IF listed # <<>> THEN WritesInvoiceFor(i, listed[1])
                         ELSE /\ Issued(i) = <<>>
                              /\ notifications' = ErrorShown(CustomerError(NotRetrieved))
       /\ notifications' = ErrorShown(CustomerError(NotRetrieved)) =>
             \E i \in 1..Len(tasks) :
                /\ tasks[i].pc = "refetchCustomers" /\ tasks[i].resp.ok /\ Deliver(i)
                /\ ListedIds(tasks[i].resp.data, tasks[i].data.customerEmail) = <<>>]_vars

\* the re-fetch after a POST /customers answered without an id found no
\* customer with the email: the submit has failed with the error
C15_CreatedNotRetrieved ==
    /\ notifications = ErrorShown(CustomerError(NotRetrieved))
    /\ tasks = <<>>

\* subtotal + tax of a sequence of rows at a tax rate
TotalWithTax(rows, taxRate) ==
    LineTotals(rows) + RoundDiv(LineTotals(rows) * ParseFloatOr0(taxRate), 100)

\* C16: the total a form submit hands to the invoice write is subtotal + tax
\* of the rows in the form at the moment of the submit, also when the
\* statistics were recomputed between the last form edit and the submit.
C16_SubmittedTotalIsFormTotal ==
    [][(SubmitForm(<<"N">>, <<"c">>, "paid") /\ StartsOperations) =>
          tasks'[Len(tasks')].data.total = TotalWithTax(dom.rows, dom.taxRate)]_vars

\* the rows of the form that are serialized: description, quantity > 0 and
\* price >= 0
RECURSIVE SerializedRows(_)
SerializedRows(rows) ==
    IF rows = <<>> THEN <<>>
    ELSE (IF /\ Trim(Head(rows).description) # <<>>
             /\ ParseFloatOr0(Head(rows).quantity) > 0
             /\ ParseFloatOr0(Head(rows).price) >= 0
          THEN <<Head(rows)>> ELSE <<>>) \o SerializedRows(Tail(rows))

\* C19: when the form displays the total of its rows, the total a form
\* submit hands to the invoice write is the sum of the line totals of the
\* serialized rows plus the tax on that sum: a row left out of the submitted
\* items adds nothing to the submitted total.
C19_ExcludedRowsAddNothing ==
    [][(/\ SubmitForm(<<"N">>, <<"c">>, "paid") /\ StartsOperations
        /\ dom.totalAmount = TotalWithTax(dom.rows, dom.taxRate)) =>
          tasks'[Len(tasks')].data.total =
              TotalWithTax(SerializedRows(dom.rows), dom.taxRate)]_vars

\* C17: a submit of the form opened for editing invoice 1 is an update of
\* invoice 1 (PUT /invoices/1, never POST /invoices), whatever the user has
\* done with the delete dialog of invoice 2 and whenever its DELETE has
\* completed.
C17_EditIsWrittenAsUpdate ==
    [][(/\ dom.invoiceModal /\ dom.modalTitle = "Edit Invoice"
        /\ SubmitForm(<<"N">>, <<"c">>, "paid") /\ StartsOperations) =>
          tasks'[Len(tasks')].editId = Str(1)]_vars

\* the invoices the remote store has deleted: ids it has given out and no
\* longer holds
DeletedIds ==
    {n \in 1..(server.nextInvoiceId - 1) : \A r \in Range(server.invoices) : r.id # n}

\* C18: when no delete is in progress (every deleteInvoice has returned),
\* the delivery of a successful response to GET /invoices leaves no invoice
\* in the local collection that the store has deleted: a list fetched before
\* the delete does not put it back.
C18_DeletedStaysAbsent ==
    [][\A i \in 1..Len(tasks) :
          (/\ tasks[i].pc \in LoadPcs /\ tasks[i].resp.ok /\ Deliver(i)
           /\ \A j \in 1..Len(tasks) : tasks[j].pc # "delete") =>
              \A inv \in Range(instances'[tasks[i].inst].invoices) :
                  inv.id.v \notin DeletedIds]_vars

\* C20: in every state, the session in memory is non-empty exactly when
\* localStorage holds the 'currentUser' record, the record then parses to
\* the user in memory, and the main view is visible exactly when the
\* session in memory is non-empty.
C20_SessionInvariant ==
    /\ (currentUser # NoUser) <=> storage.present
    /\ storage.present => Parse(storage) = currentUser
    /\ (view = "main") <=> (currentUser # NoUser)

\* a signup has completed by logging in after an earlier session of the
\* run was ended by logout
C20_SignedUpAfterLogout ==
    /\ notifications = <<[message |-> <<"Account", "created", "successfully!">>,
                          type |-> "success"]>>
    /\ Len(instances) = 2
    /\ currentUser # NoUser

\* C21: with a search term or a status filter set (and no date filter),
\* after the delivery of a successful load or delete to the current
\* workspace every listed row is an invoice of the local collection that
\* satisfies the filters: no row is on screen that the filter excludes.
C21_RenderedListIsFiltered ==
    [][\A i \in 1..Len(tasks) :
          (/\ tasks[i].pc \in LoadPcs \cup {"delete"} /\ tasks[i].resp.ok
           /\ Deliver(i) /\ tasks[i].inst = invoiceManager
           /\ dom'.searchInput # <<>> \/ dom'.statusFilter # ""
           /\ dom'.dateFilter = "") =>
              LET inst == instances'[tasks[i].inst] IN
              \A j \in 1..Len(dom'.tbody) :
                 \E inv \in Range(inst.invoices) :
                    /\ inv.id.v = dom'.tbody[j].v
                    /\ PassesFilters(inv, inst.userId, dom'.searchInput,
                                     dom'.statusFilter, "", ServerDay)]_vars

====
